---- MODULE Spec2Model ----
(***************************************************************************)
(* The document cache of JobApplicationAI (src/utils/cache_utils.py,       *)
(* class DocumentCache): a directory of JSON record files, one per         *)
(* (document kind, MD5 of the source file's bytes), validated on lookup by *)
(* the source file's modification time.                                    *)
(*                                                                         *)
(* The state is the file system the cache works on: the source files       *)
(* (fs) and the cache directory (dir).  The cache's methods are actions;   *)
(* the environment edits, touches and removes source files and may damage  *)
(* a record file.  now is the wall clock datetime.now() reads, env counts *)
(* the environment's events, and lastMut and ret are history variables:    *)
(* the last event that changed the cache directory, and what the last      *)
(* method call returned.  locked holds the record files that cannot be     *)
(* deleted.  storing and clearing are a store and a clear_cache in         *)
(* progress, for the specifications in which other processes run between   *)
(* their steps.  args, pc, exitStatus and calls are one run of the command *)
(* line program (src/main.py, main), and workflow is one call of           *)
(* OrchestratorAgent.execute_workflow (src/agents/orchestrator.py).        *)
(***************************************************************************)
EXTENDS Integers, Sequences, FiniteSets, TLC

VARIABLES fs, dir, now, env, lastMut, ret, locked, unlistable,
          storing, clearing, args, pc, exitStatus, calls, workflow

\* the record files os.remove fails on, and whether os.listdir of the cache
\* directory fails
faultVars == <<locked, unlistable>>
\* a call of cache_resume / cache_job_description and a call of clear_cache
\* taken step by step: where the call stands and its local variables
procVars == <<storing, clearing>>
\* one run of main(): its arguments, its position, its exit status, the
\* functions it has called, and the call of execute_workflow
cliVars == <<args, pc, exitStatus, calls, workflow>>

vars == <<fs, dir, now, env, lastMut, ret, locked, unlistable,
          storing, clearing, args, pc, exitStatus, calls, workflow>>

-----------------------------------------------------------------------------
(* Bounds of the model *)

\* modification times of source files range over 0..MaxTime
MaxTime == 1
\* a behaviour holds at most MaxStores calls of cache_resume and
\* cache_job_description (the clock advances with each)
MaxStores == 2
\* a behaviour holds at most MaxEnvEvents events of the environment (a source
\* file written or removed, a record file damaged)
MaxEnvEvents == 1

-----------------------------------------------------------------------------
(* Values *)

Paths == {"F1", "F2"}
Kinds == {"resume", "job"}
\* byte contents of source files
Contents == {"a", "bb"}
\* parsed texts handed to the cache
Texts == {"", "tA"}
Times == 0..MaxTime

\* Python's None, as returned in place of a text
None == "None"

\* a source file that does not exist (or cannot be opened)
Missing == [exists |-> FALSE, content |-> "", mtime |-> 0]
SrcFile(c, m) == [exists |-> TRUE, content |-> c, mtime |-> m]

\* hashlib.md5(content).hexdigest()
Md5(c) ==
    CASE c = "a"  -> "0cc175b9c0f1b6a831c399e269772661"
      [] c = "bb" -> "21ad0bd836b90d08f4cf640b4c298e7c"

Hashes == {Md5(c) : c \in Contents}

\* os.path.getsize of a source file
SrcSize(c) == Len(c)

\* f"{file_type}_{file_hash}.json" inside the cache directory
RecordName(file_type, file_hash) == <<file_type, file_hash, ".json">>
RecordNames == {RecordName(k, h) : k \in Kinds, h \in Hashes}
EndsWithJson(file_name) == file_name[3] = ".json"

\* What a file of the cache directory holds.  shape says what json.load makes
\* of it:
\*   "record"        the object _save_cache wrote
\*   "unparseable"   not JSON (json.load raises)
\*   "null"          the JSON value null (parses, is falsy, is no object)
\*   "array"         a JSON array such as [1] (parses, is truthy, is no object)
\*   "bad_timestamp" an object whose "timestamp" is a string
NoFile == [shape |-> "absent", file_path |-> "", parsed_text |-> "",
           timestamp |-> 0, cached_at |-> 0, file_size |-> 0]
Record(p, text, ts, at, size) ==
    [shape |-> "record", file_path |-> p, parsed_text |-> text,
     timestamp |-> ts, cached_at |-> at, file_size |-> size]
Damaged(f, s) ==
    IF s = "bad_timestamp" THEN [f EXCEPT !.shape = s]
    ELSE [NoFile EXCEPT !.shape = s]
Shapes == {"unparseable", "null", "array", "bad_timestamp"}

\* json.load succeeds
Parses(f) == f.shape \in {"record", "null", "array", "bad_timestamp"}
\* the loaded value is a dict (has .get)
IsObject(f) == f.shape \in {"record", "bad_timestamp"}
\* the loaded value is truthy
Truthy(f) == f.shape \in {"record", "array", "bad_timestamp"}
\* float > value is defined
NumericTimestamp(f) == f.shape = "record"

\* characters of json.dump(data, indent=2) besides the two strings
JsonFixedSize == 125
\* os.path.getsize of a file of the cache directory
RecordFileSize(f) ==
    CASE f.shape = "record"        -> JsonFixedSize + Len(f.file_path) + Len(f.parsed_text)
      [] f.shape = "bad_timestamp" -> JsonFixedSize + Len(f.file_path) + Len(f.parsed_text)
      [] f.shape = "unparseable"   -> 1
      [] f.shape = "null"          -> 4
      [] f.shape = "array"         -> 3
      [] OTHER                     -> 0

-----------------------------------------------------------------------------
(* Helpers of DocumentCache.  A helper that can raise returns                *)
(* [raised |-> TRUE] in place of its value.                                  *)

Raised == [raised |-> TRUE, value |-> None]
Value(v) == [raised |-> FALSE, value |-> v]

\* mutant of _get_file_hash: the digest is taken of the modification time,
\* not of the bytes
_get_file_hash_by_mtime(file_path) ==
    IF fs[file_path].exists
    THEN Value(IF fs[file_path].mtime = 0 THEN Md5("a") ELSE Md5("bb"))
    ELSE Raised

\* mutant of _get_file_hash: the digest is taken of the path, not of the bytes
_get_file_hash_by_path(file_path) ==
    IF fs[file_path].exists
    THEN Value(IF file_path = "F1" THEN Md5("a") ELSE Md5("bb"))
    ELSE Raised

\* _get_file_hash: open(file_path, 'rb'), read, md5; re-raises
_get_file_hash(file_path) ==
    IF fs[file_path].exists THEN Value(Md5(fs[file_path].content)) ELSE Raised

\* _get_file_timestamp: os.path.getmtime; re-raises
_get_file_timestamp(file_path) ==
    IF fs[file_path].exists
    THEN [raised |-> FALSE, value |-> fs[file_path].mtime]
    ELSE [raised |-> TRUE, value |-> 0]

\* mutant of _get_cache_file_path: the record is named after the path, not
\* after the hash of the bytes
_get_cache_file_path_by_path(file_path, file_type) ==
    IF ~fs[file_path].exists THEN [raised |-> TRUE, value |-> RecordName(file_type, "")]
    ELSE [raised |-> FALSE,
          value |-> RecordName(file_type, IF file_path = "F1" THEN Md5("a") ELSE Md5("bb"))]

\* _get_cache_file_path
_get_cache_file_path(file_path, file_type) ==
    LET file_hash == _get_file_hash(file_path)
    IN  IF file_hash.raised THEN [raised |-> TRUE, value |-> RecordName(file_type, "")]
        ELSE [raised |-> FALSE, value |-> RecordName(file_type, file_hash.value)]

\* _load_cache: the loaded value, or None (here NoFile) when the file does
\* not exist or json.load raises
_load_cache(cache_file_path) ==
    IF dir[cache_file_path].shape # "absent" /\ Parses(dir[cache_file_path])
    THEN dir[cache_file_path]
    ELSE NoFile

-----------------------------------------------------------------------------
(* Lookup: get_cached_resume and get_cached_job_description *)

Miss == [raised |-> FALSE, text |-> None, hit |-> FALSE]
Hit(text) == [raised |-> FALSE, text |-> text, hit |-> TRUE]
Raise == [raised |-> TRUE, text |-> None, hit |-> FALSE]

\* mutant of ModifiedSince: an equal modification time counts as modified
ModifiedSince_ge(current_timestamp, cached_timestamp) ==
    current_timestamp >= cached_timestamp

\* mutant of ModifiedSince: the comparison is turned around
ModifiedSince_lt(current_timestamp, cached_timestamp) ==
    current_timestamp < cached_timestamp

\* mutant of ModifiedSince: a later modification time is not noticed
ModifiedSince_never(current_timestamp, cached_timestamp) == FALSE

\* "if current_timestamp > cached_timestamp": the file was modified since caching
ModifiedSince(current_timestamp, cached_timestamp) ==
    current_timestamp > cached_timestamp

\* mutant of LookupBody: the modification time is not compared, a record
\* that loads is a hit
LookupBody_no_staleness(file_path, file_type) ==
    LET cache_file_path == _get_cache_file_path(file_path, file_type)
        cached_data == _load_cache(cache_file_path.value)
    IN  IF cache_file_path.raised THEN Raise
        ELSE IF ~Truthy(cached_data) THEN Miss
        ELSE IF ~IsObject(cached_data) THEN Raise
        ELSE Hit(cached_data.parsed_text)

\* The body of the try block of get_cached_resume / get_cached_job_description
\* (the two differ in the file_type only).  Raise stands for an exception
\* leaving the block: _get_file_hash or _get_file_timestamp re-raising, .get on
\* a value that is no dict, or float > str.
LookupBody(file_path, file_type) ==
    LET cache_file_path == _get_cache_file_path(file_path, file_type)
        cached_data == _load_cache(cache_file_path.value)
        current_timestamp == _get_file_timestamp(file_path)
    IN  IF cache_file_path.raised THEN Raise
        ELSE IF ~Truthy(cached_data) THEN Miss
        ELSE IF ~IsObject(cached_data) THEN Raise
        ELSE IF current_timestamp.raised THEN Raise
        ELSE IF ~NumericTimestamp(cached_data) THEN Raise
        ELSE IF ModifiedSince(current_timestamp.value, cached_data.timestamp) THEN Miss
        ELSE Hit(cached_data.parsed_text)

\* "except Exception as e: ... return None, False"
ExceptReturnMiss(r) == IF r.raised THEN Miss ELSE r

\* mutant of get_cached_resume: no except clause, the exception propagates
get_cached_resume_propagating(resume_path) == LookupBody(resume_path, "resume")

get_cached_resume(resume_path) ==
    ExceptReturnMiss(LookupBody(resume_path, "resume"))

\* mutant of get_cached_job_description: no except clause
get_cached_job_description_propagating(job_path) == LookupBody(job_path, "job")

\* mutant of get_cached_job_description: it reads the resume's record
get_cached_job_description_resume_key(job_path) ==
    ExceptReturnMiss(LookupBody(job_path, "resume"))

get_cached_job_description(job_path) ==
    ExceptReturnMiss(LookupBody(job_path, "job"))

\* lookup(kind, filePath) of the specification
Lookup(kind, file_path) ==
    IF kind = "resume" THEN get_cached_resume(file_path)
    ELSE get_cached_job_description(file_path)

-----------------------------------------------------------------------------
(* Store: cache_resume and cache_job_description *)

\* mutant of _save_cache: an existing record file is kept (open mode 'x')
_save_cache_keep_existing(cache_file_path, data) ==
    IF dir[cache_file_path].shape # "absent" THEN dir
    ELSE [dir EXCEPT ![cache_file_path] = data]

\* mutant of _save_cache: the cache keeps one record, writing one removes
\* the others
_save_cache_single_slot(cache_file_path, data) ==
    [n \in DOMAIN dir |-> IF n = cache_file_path THEN data ELSE NoFile]

\* _save_cache: open(cache_file_path, 'w') and json.dump; the directory after it
_save_cache(cache_file_path, data) == [dir EXCEPT ![cache_file_path] = data]

\* mutant of CacheData: "timestamp" is the time of caching, not the source
\* file's modification time
CacheData_timestamp_now(file_path, parsed_text) ==
    Record(file_path, parsed_text, now, now, SrcSize(fs[file_path].content))

\* mutant of CacheData: the text is cut off
CacheData_truncated_text(file_path, parsed_text) ==
    Record(file_path, "", _get_file_timestamp(file_path).value, now,
           SrcSize(fs[file_path].content))

\* The cache_data dictionary built by cache_resume / cache_job_description
CacheData(file_path, parsed_text) ==
    Record(file_path, parsed_text, _get_file_timestamp(file_path).value, now,
           SrcSize(fs[file_path].content))

-----------------------------------------------------------------------------
(* The command line of main.py *)

\* args of a run without arguments: the flags are false, -r and -j are None
NoArgs == [cache_info |-> FALSE, clear_cache |-> FALSE,
           resume |-> None, job_description |-> None]
\* the exit status of a process that has not exited
Running == -1

-----------------------------------------------------------------------------
(* History variables *)

NoRet == [op |-> "none", kind |-> "", path |-> "", text |-> None, hit |-> FALSE,
          raised |-> FALSE, entries |-> {}, total |-> 0, failed |-> {},
          error |-> FALSE, keys |-> {}]
LookupRet(kind, p, r) ==
    [NoRet EXCEPT !.op = "lookup", !.kind = kind, !.path = p, !.text = r.text,
                  !.hit = r.hit, !.raised = r.raised]
StoreRet(kind, p, raised) ==
    [NoRet EXCEPT !.op = "store", !.kind = kind, !.path = p, !.raised = raised]

NoMut == [op |-> "none", kind |-> "", path |-> "", text |-> "", content |-> "",
          mtime |-> 0, now |-> 0, before |-> NoFile, cleared |-> {},
          stored |-> [n \in RecordNames |-> None]]
StoreMut(kind, p, text, before) ==
    [NoMut EXCEPT !.op = "store", !.kind = kind, !.path = p, !.text = text,
                  !.content = fs[p].content, !.mtime = fs[p].mtime,
                  !.now = now, !.before = before,
                  !.stored = [lastMut.stored EXCEPT
                                 ![RecordName(kind, Md5(fs[p].content))] = text]]

\* no store is in progress
NotStoring == [pc |-> "idle"]
\* no clear_cache is in progress
NotClearing == [pc |-> "idle", todo |-> {}]

-----------------------------------------------------------------------------
(* Actions: the methods of DocumentCache *)

\* mutant of StoreDocument: the except clause logs the error and returns
StoreDocument_swallowing(file_type, file_path, parsed_text) ==
    LET cache_file_path == _get_cache_file_path(file_path, file_type)
    IN  /\ now < MaxStores
        /\ now' = now + 1
        /\ UNCHANGED <<fs, env, faultVars, procVars, cliVars>>
        /\ IF cache_file_path.raised
           THEN /\ ret' = StoreRet(file_type, file_path, FALSE)
                /\ UNCHANGED <<dir, lastMut>>
           ELSE /\ dir' = _save_cache(cache_file_path.value,
                                      CacheData(file_path, parsed_text))
                /\ lastMut' = StoreMut(file_type, file_path, parsed_text,
                                       dir[cache_file_path.value])
                /\ ret' = StoreRet(file_type, file_path, FALSE)

\* cache_resume / cache_job_description with file_type fixed: an unreadable
\* source makes _get_cache_file_path raise, and the method re-raises before
\* anything is written
StoreDocument(file_type, file_path, parsed_text) ==
    LET cache_file_path == _get_cache_file_path(file_path, file_type)
    IN  /\ now < MaxStores
        /\ now' = now + 1
        /\ UNCHANGED <<fs, env, faultVars, procVars, cliVars>>
        /\ IF cache_file_path.raised
           THEN /\ ret' = StoreRet(file_type, file_path, TRUE)
                /\ UNCHANGED <<dir, lastMut>>
           ELSE /\ dir' = _save_cache(cache_file_path.value,
                                      CacheData(file_path, parsed_text))
                /\ lastMut' = StoreMut(file_type, file_path, parsed_text,
                                       dir[cache_file_path.value])
                /\ ret' = StoreRet(file_type, file_path, FALSE)

cache_resume(resume_path, parsed_text) ==
    /\ resume_path \in Paths /\ parsed_text \in Texts
    /\ StoreDocument("resume", resume_path, parsed_text)

cache_job_description(job_path, parsed_text) ==
    /\ job_path \in Paths /\ parsed_text \in Texts
    /\ StoreDocument("job", job_path, parsed_text)

\* mutant of CallGetCachedResume: a record found stale is deleted
CallGetCachedResume_evicting(resume_path) ==
    LET key == _get_cache_file_path(resume_path, "resume")
        stale == /\ ~key.raised
                 /\ dir[key.value].shape = "record"
                 /\ fs[resume_path].mtime > dir[key.value].timestamp
    IN  /\ ret' = LookupRet("resume", resume_path, get_cached_resume(resume_path))
        /\ dir' = IF stale THEN [dir EXCEPT ![key.value] = NoFile] ELSE dir
        /\ UNCHANGED <<fs, now, env, lastMut, faultVars, procVars, cliVars>>

CallGetCachedResume(resume_path) ==
    /\ ret' = LookupRet("resume", resume_path, get_cached_resume(resume_path))
    /\ UNCHANGED <<fs, dir, now, env, lastMut, faultVars, procVars, cliVars>>

CallGetCachedJobDescription(job_path) ==
    /\ ret' = LookupRet("job", job_path, get_cached_job_description(job_path))
    /\ UNCHANGED <<fs, dir, now, env, lastMut, faultVars, procVars, cliVars>>

\* os.listdir(self.cache_dir)
ListDir == {n \in DOMAIN dir : dir[n].shape # "absent"}

\* mutant of clear_cache: only the resume records are removed
clear_cache_resume_only ==
    /\ dir' = [n \in DOMAIN dir |->
                 IF n \in ListDir /\ n[1] = "resume" THEN NoFile ELSE dir[n]]
    /\ lastMut' = [NoMut EXCEPT !.op = "clear",
                                !.cleared = {n \in ListDir : EndsWithJson(n)}]
    /\ ret' = [NoRet EXCEPT !.op = "clear"]
    /\ UNCHANGED <<fs, now, env, faultVars, procVars, cliVars>>

\* What one run of clear_cache's loop can do.  os.listdir returns the names
\* in arbitrary order and os.remove is called on them in that order inside
\* one try block: when os.listdir raises nothing is removed; when no listed
\* file is locked all are removed; otherwise
\* the files removed are those listed before the first locked one (any set
\* of the others), and the exception of that one os.remove, which names the
\* file, leaves the loop and is re-raised.
ClearOutcomes ==
    LET listed == {n \in ListDir : EndsWithJson(n)}
    IN  IF unlistable
        THEN {[removed |-> {}, failed |-> {}, raised |-> TRUE]}
        ELSE IF listed \cap locked = {}
        THEN {[removed |-> listed, failed |-> {}, raised |-> FALSE]}
        ELSE {[removed |-> S, failed |-> {f}, raised |-> TRUE] :
                 S \in SUBSET (listed \ locked), f \in listed \cap locked}

\* the effect of clear_cache on the cache directory, and what it returns
ClearEffect(o) ==
    /\ dir' = [n \in DOMAIN dir |-> IF n \in o.removed THEN NoFile ELSE dir[n]]
    /\ lastMut' = [NoMut EXCEPT !.op = "clear", !.cleared = o.removed,
                                !.stored = [n \in RecordNames |->
                                               IF n \in o.removed THEN None
                                               ELSE lastMut.stored[n]]]
    /\ ret' = [NoRet EXCEPT !.op = "clear", !.raised = o.raised,
                            !.failed = o.failed]
    /\ UNCHANGED <<fs, now, env, faultVars, procVars>>

\* clear_cache: os.remove of every listed file whose name ends in .json
clear_cache ==
    \E o \in ClearOutcomes :
        /\ ClearEffect(o)
        /\ UNCHANGED cliVars

\* get_cache_info: the files the inner try block appends (json.load succeeds
\* and the loaded value has .get); the others are skipped by "continue"
InfoListed ==
    {n \in ListDir : EndsWithJson(n) /\ Parses(dir[n]) /\ IsObject(dir[n])}

InfoEntry(n) ==
    [file |-> n, original_file |-> dir[n].file_path,
     cached_at |-> dir[n].cached_at, size |-> RecordFileSize(dir[n])]

RECURSIVE SumSizes(_)
SumSizes(S) ==
    IF S = {} THEN 0
    ELSE LET n == CHOOSE x \in S : TRUE
         IN  RecordFileSize(dir[n]) + SumSizes(S \ {n})

\* mutant of CacheInfo: total_size is added before the inner try block, so
\* skipped files count
CacheInfo_size_before_try ==
    [cached_files |-> {InfoEntry(n) : n \in InfoListed},
     total_size |-> SumSizes({n \in ListDir : EndsWithJson(n)})]

\* the dictionary get_cache_info returns
CacheInfo ==
    [cached_files |-> {InfoEntry(n) : n \in InfoListed},
     total_size |-> SumSizes(InfoListed)]

\* mutant of GetCacheInfoRet: the outer except clause re-raises
GetCacheInfoRet_raising ==
    IF unlistable
    THEN [NoRet EXCEPT !.op = "info", !.raised = TRUE]
    ELSE [NoRet EXCEPT !.op = "info", !.entries = CacheInfo.cached_files,
                       !.total = CacheInfo.total_size,
                       !.keys = {"cache_directory", "cached_files", "total_size"}]

\* What get_cache_info returns: when os.listdir raises, the outer except
\* clause returns {"error": str(e)}; otherwise the dictionary with the keys
\* cache_directory, cached_files and total_size.  keys are the keys of the
\* dictionary returned.
GetCacheInfoRet ==
    IF unlistable
    THEN [NoRet EXCEPT !.op = "info", !.error = TRUE, !.keys = {"error"}]
    ELSE [NoRet EXCEPT !.op = "info", !.entries = CacheInfo.cached_files,
                       !.total = CacheInfo.total_size,
                       !.keys = {"cache_directory", "cached_files", "total_size"}]

\* mutant of get_cache_info: a file that does not load is removed
get_cache_info_removing_corrupted ==
    /\ ret' = GetCacheInfoRet
    /\ dir' = [n \in DOMAIN dir |-> IF n \in ListDir /\ n \notin InfoListed
                                      THEN NoFile ELSE dir[n]]
    /\ UNCHANGED <<fs, now, env, lastMut, faultVars, procVars, cliVars>>

get_cache_info ==
    /\ ret' = GetCacheInfoRet
    /\ UNCHANGED <<fs, dir, now, env, lastMut, faultVars, procVars, cliVars>>

-----------------------------------------------------------------------------
(* Actions: the environment *)

\* A source file is created, edited or touched: any content, any mtime
WriteFile(p, c, m) ==
    /\ env < MaxEnvEvents
    /\ fs[p] # SrcFile(c, m)
    /\ env' = env + 1
    /\ fs' = [fs EXCEPT ![p] = SrcFile(c, m)]
    /\ ret' = NoRet
    /\ UNCHANGED <<dir, now, lastMut, faultVars, procVars, cliVars>>

\* A source file is deleted (or made unreadable)
RemoveFile(p) ==
    /\ env < MaxEnvEvents
    /\ fs[p].exists
    /\ fs' = [fs EXCEPT ![p] = Missing]
    /\ env' = env + 1
    /\ ret' = NoRet
    /\ UNCHANGED <<dir, now, lastMut, faultVars, procVars, cliVars>>

\* A record file is damaged on disk
DamageRecord(n, s) ==
    /\ env < MaxEnvEvents
    /\ dir[n].shape = "record"
    /\ dir' = [dir EXCEPT ![n] = Damaged(dir[n], s)]
    /\ env' = env + 1
    /\ lastMut' = [NoMut EXCEPT !.op = "damage", !.kind = n[1], !.before = dir[n],
                                !.stored = [lastMut.stored EXCEPT ![n] = None]]
    /\ ret' = NoRet
    /\ UNCHANGED <<fs, now, faultVars, procVars, cliVars>>

\* A file of the cache directory becomes undeletable: os.remove on it raises
\* (the directory lost its write permission for this entry, as in a sticky
\* directory where another user owns the file).  Reading and rewriting the
\* file are not affected.
LockRecord(n) ==
    /\ env < MaxEnvEvents
    /\ dir[n].shape # "absent"
    /\ n \notin locked
    /\ locked' = locked \cup {n}
    /\ env' = env + 1
    /\ ret' = NoRet
    /\ UNCHANGED <<fs, dir, now, lastMut, unlistable, procVars, cliVars>>

\* The cache directory loses its read permission: os.listdir on it raises.
\* Files in it can still be opened by name.
RevokeListing ==
    /\ env < MaxEnvEvents
    /\ ~unlistable
    /\ unlistable' = TRUE
    /\ env' = env + 1
    /\ ret' = NoRet
    /\ UNCHANGED <<fs, dir, now, lastMut, locked, procVars, cliVars>>

-----------------------------------------------------------------------------
(* Actions: cache_resume / cache_job_description step by step, as another   *)
(* process sees it: the read of the bytes for the hash, os.path.getmtime,    *)
(* os.path.getsize, then in _save_cache the open(cache_file_path, 'w'),      *)
(* which truncates the file, and json.dump with the close of the file.       *)

\* the call leaves through "except Exception ... raise"
StoreRaises ==
    /\ storing' = NotStoring
    /\ ret' = StoreRet(storing.kind, storing.path, TRUE)

\* "cache_file_path = self._get_cache_file_path(path, file_type)": the bytes
\* are read and hashed; hashed is the version of the file that was read
StoreGetCacheFilePath(file_type, file_path, parsed_text) ==
    LET cache_file_path == _get_cache_file_path(file_path, file_type)
    IN  /\ storing.pc = "idle"
        /\ now < MaxStores
        /\ now' = now + 1
        /\ IF cache_file_path.raised
           THEN /\ ret' = StoreRet(file_type, file_path, TRUE)
                /\ UNCHANGED storing
           ELSE /\ storing' = [pc |-> "hashed", kind |-> file_type,
                               path |-> file_path, text |-> parsed_text,
                               key |-> cache_file_path.value,
                               hashed |-> fs[file_path], at |-> now,
                               timestamp |-> 0, size |-> 0]
                /\ ret' = NoRet
        /\ UNCHANGED <<fs, dir, env, lastMut, faultVars, clearing, cliVars>>

\* "timestamp = self._get_file_timestamp(path)": the mtime the file has now
StoreGetTimestamp ==
    LET timestamp == _get_file_timestamp(storing.path)
    IN  /\ storing.pc = "hashed"
        /\ IF timestamp.raised
           THEN StoreRaises
           ELSE /\ storing' = [storing EXCEPT !.pc = "stamped",
                                              !.timestamp = timestamp.value]
                /\ ret' = NoRet
        /\ UNCHANGED <<fs, dir, now, env, lastMut, faultVars, clearing, cliVars>>

\* "file_size": os.path.getsize(path)": the size the file has now
StoreGetSize ==
    /\ storing.pc = "stamped"
    /\ IF ~fs[storing.path].exists
       THEN StoreRaises
       ELSE /\ storing' = [storing EXCEPT
                              !.pc = "sized",
                              !.size = SrcSize(fs[storing.path].content)]
            /\ ret' = NoRet
    /\ UNCHANGED <<fs, dir, now, env, lastMut, faultVars, clearing, cliVars>>

\* mutant of SaveCacheOpen: the record is written to a temporary file, the
\* record file is not touched before the rename
SaveCacheOpen_to_temp ==
    /\ storing.pc = "sized"
    /\ storing' = [storing EXCEPT !.pc = "opened"]
    /\ lastMut' = [NoMut EXCEPT
                      !.op = "truncate", !.kind = storing.kind,
                      !.path = storing.path, !.text = storing.text,
                      !.content = storing.hashed.content,
                      !.mtime = storing.hashed.mtime, !.now = storing.at,
                      !.before = dir[storing.key],
                      !.stored = lastMut.stored]
    /\ ret' = NoRet
    /\ UNCHANGED <<fs, dir, now, env, faultVars, clearing, cliVars>>

\* _save_cache, "with open(cache_file_path, 'w', encoding='utf-8') as f":
\* the file is created or truncated to no bytes, which is not JSON
SaveCacheOpen ==
    /\ storing.pc = "sized"
    /\ dir' = [dir EXCEPT ![storing.key] = Damaged(NoFile, "unparseable")]
    /\ storing' = [storing EXCEPT !.pc = "opened"]
    /\ lastMut' = [NoMut EXCEPT
                      !.op = "truncate", !.kind = storing.kind,
                      !.path = storing.path, !.text = storing.text,
                      !.content = storing.hashed.content,
                      !.mtime = storing.hashed.mtime, !.now = storing.at,
                      !.before = dir[storing.key],
                      !.stored = [lastMut.stored EXCEPT ![storing.key] = None]]
    /\ ret' = NoRet
    /\ UNCHANGED <<fs, now, env, faultVars, clearing, cliVars>>

\* _save_cache, "json.dump(data, f, indent=2, ensure_ascii=False)" and the
\* close of the file.  written is FALSE when json.dump or the flush raises
\* (no space left on the device, a text json cannot encode): the file keeps
\* the bytes written so far, which are not JSON, and the call re-raises.
SaveCacheDump(written) ==
    /\ storing.pc = "opened"
    /\ IF written
       THEN /\ dir' = [dir EXCEPT ![storing.key] =
                          Record(storing.path, storing.text, storing.timestamp,
                                 storing.at, storing.size)]
            /\ lastMut' = [lastMut EXCEPT
                              !.op = "store",
                              !.stored = [lastMut.stored EXCEPT
                                             ![storing.key] = storing.text]]
            /\ storing' = NotStoring
            /\ ret' = StoreRet(storing.kind, storing.path, FALSE)
       ELSE /\ StoreRaises
            /\ UNCHANGED <<dir, lastMut>>
    /\ UNCHANGED <<fs, now, env, faultVars, clearing, cliVars>>

-----------------------------------------------------------------------------
(* Actions: clear_cache step by step, as another process sees it: the       *)
(* os.listdir call, then one os.remove per turn of the loop, in the order    *)
(* of the listing (any order).                                               *)

\* "for file_name in os.listdir(self.cache_dir)": the listing is taken once
ClearListdir ==
    /\ clearing.pc = "idle"
    /\ IF unlistable
       THEN /\ ret' = [NoRet EXCEPT !.op = "clear", !.raised = TRUE]
            /\ UNCHANGED clearing
       ELSE /\ clearing' = [pc |-> "removing",
                            todo |-> {n \in ListDir : EndsWithJson(n)}]
            /\ ret' = NoRet
    /\ UNCHANGED <<fs, dir, now, env, lastMut, faultVars, storing, cliVars>>

\* mutant of ClearRemove: the files still to remove go in one step
ClearRemove_all_at_once(n) ==
    /\ clearing.pc = "removing"
    /\ n \in clearing.todo
    /\ dir' = [m \in DOMAIN dir |-> IF m \in clearing.todo THEN NoFile ELSE dir[m]]
    /\ clearing' = [clearing EXCEPT !.todo = {}]
    /\ lastMut' = [NoMut EXCEPT !.op = "remove", !.kind = n[1],
                                !.before = dir[n], !.cleared = clearing.todo,
                                !.stored = [m \in RecordNames |->
                                               IF m \in clearing.todo THEN None
                                               ELSE lastMut.stored[m]]]
    /\ ret' = NoRet
    /\ UNCHANGED <<fs, now, env, faultVars, storing, cliVars>>

\* one turn of the loop, "os.remove(file_path)" of a listed file: when it
\* raises (the file is locked, or is no longer there) the exception leaves
\* the loop and clear_cache re-raises
ClearRemove(n) ==
    /\ clearing.pc = "removing"
    /\ n \in clearing.todo
    /\ IF n \in locked \/ dir[n].shape = "absent"
       THEN /\ clearing' = NotClearing
            /\ ret' = [NoRet EXCEPT !.op = "clear", !.raised = TRUE,
                                    !.failed = {n}]
            /\ UNCHANGED <<dir, lastMut>>
       ELSE /\ dir' = [dir EXCEPT ![n] = NoFile]
            /\ clearing' = [clearing EXCEPT !.todo = clearing.todo \ {n}]
            /\ lastMut' = [NoMut EXCEPT !.op = "remove", !.kind = n[1],
                                        !.before = dir[n], !.cleared = {n},
                                        !.stored = [lastMut.stored EXCEPT
                                                       ![n] = None]]
            /\ ret' = NoRet
    /\ UNCHANGED <<fs, now, env, faultVars, storing, cliVars>>

\* the loop is over: "Cache cleared successfully"
ClearReturn ==
    /\ clearing.pc = "removing"
    /\ clearing.todo = {}
    /\ clearing' = NotClearing
    /\ ret' = [NoRet EXCEPT !.op = "clear"]
    /\ UNCHANGED <<fs, dir, now, env, lastMut, faultVars, storing, cliVars>>

-----------------------------------------------------------------------------
(* Actions: one run of main().  pc is the position in main's try block:     *)
(* "start" after parse_args and the banner, "cache_ops" after the           *)
(* environment is loaded, "validate", "output_dir" and "workflow" before the *)
(* steps of those names, "exited" after sys.exit.  Signals                   *)
(* (KeyboardInterrupt) are not modelled.                                     *)

\* sys.exit(status)
Exit(status) ==
    /\ pc' = "exited"
    /\ exitStatus' = status

Called(f) == \E i \in 1..Len(calls) : calls[i] = f

\* "if not load_environment(): ... sys.exit(1)".  loaded is what
\* load_environment returns: FALSE when python-dotenv is installed and
\* GEMINI_API_KEY is not set, or load_dotenv raises; ret.error records that
\* it returned False.
\* mutant of LoadEnvironment: main goes on when load_environment returns
\* False
LoadEnvironment_not_gating(loaded) ==
    /\ pc = "start"
    /\ calls' = Append(calls, "load_environment")
    /\ ret' = [NoRet EXCEPT !.op = "load_environment", !.error = ~loaded]
    /\ pc' = "cache_ops" /\ UNCHANGED exitStatus
    /\ UNCHANGED <<fs, dir, now, env, lastMut, faultVars, procVars, args, workflow>>

LoadEnvironment(loaded) ==
    /\ pc = "start"
    /\ calls' = Append(calls, "load_environment")
    /\ ret' = [NoRet EXCEPT !.op = "load_environment", !.error = ~loaded]
    /\ IF loaded THEN pc' = "cache_ops" /\ UNCHANGED exitStatus
       ELSE Exit(1)
    /\ UNCHANGED <<fs, dir, now, env, lastMut, faultVars, procVars, args, workflow>>

\* "if args.cache_info:" with the directory of the cache in place.  When
\* get_cache_info returns the dictionary with the key "error" alone,
\* cache_info['cache_directory'] raises KeyError, which main's
\* "except Exception" turns into sys.exit(1); otherwise the information is
\* printed and the process exits with status 0.
CacheInfoAction ==
    /\ pc = "cache_ops"
    /\ args.cache_info
    /\ calls' = calls \o <<"DocumentCache", "get_cache_info">>
    /\ ret' = GetCacheInfoRet
    /\ Exit(IF "cache_directory" \in GetCacheInfoRet.keys THEN 0 ELSE 1)
    /\ UNCHANGED <<fs, dir, now, env, lastMut, faultVars, procVars, args, workflow>>

\* "if args.clear_cache:", reached when args.cache_info is false
ClearCacheAction ==
    /\ pc = "cache_ops"
    /\ ~args.cache_info
    /\ args.clear_cache
    /\ calls' = calls \o <<"DocumentCache", "clear_cache">>
    /\ \E o \in ClearOutcomes :
          /\ ClearEffect(o)
          /\ Exit(IF o.raised THEN 1 ELSE 0)
    /\ UNCHANGED <<args, workflow>>

\* DocumentCache() in either branch when os.makedirs(cache_dir,
\* exist_ok=True) raises: _ensure_cache_directory re-raises, and main's
\* "except Exception" exits with status 1
CacheDirectoryFailure ==
    /\ pc = "cache_ops"
    /\ args.cache_info \/ args.clear_cache
    /\ calls' = Append(calls, "DocumentCache")
    /\ Exit(1)
    /\ UNCHANGED <<fs, dir, now, env, lastMut, ret, faultVars, procVars, args, workflow>>

\* "if not args.resume or not args.job_description: ... sys.exit(1)"
CheckArguments ==
    /\ pc = "cache_ops"
    /\ ~args.cache_info
    /\ ~args.clear_cache
    /\ IF args.resume = None \/ args.job_description = None
       THEN Exit(1)
       ELSE pc' = "validate" /\ UNCHANGED exitStatus
    /\ UNCHANGED <<fs, dir, now, env, lastMut, ret, faultVars, procVars, args, calls, workflow>>

\* validate_input_files: os.path.exists of both paths
ValidateInputFiles ==
    /\ pc = "validate"
    /\ calls' = Append(calls, "validate_input_files")
    /\ IF fs[args.resume].exists /\ fs[args.job_description].exists
       THEN pc' = "output_dir" /\ UNCHANGED exitStatus
       ELSE Exit(1)
    /\ UNCHANGED <<fs, dir, now, env, lastMut, ret, faultVars, procVars, args, workflow>>

\* create_output_directory: created is FALSE when os.makedirs raises
CreateOutputDirectory(created) ==
    /\ pc = "output_dir"
    /\ calls' = Append(calls, "create_output_directory")
    /\ IF created THEN pc' = "workflow" /\ UNCHANGED exitStatus
       ELSE Exit(1)
    /\ UNCHANGED <<fs, dir, now, env, lastMut, ret, faultVars, procVars, args, workflow>>

\* setup_file_logging, run_workflow and print_results; success is
\* result.get("success", False)
RunWorkflow(success) ==
    /\ pc = "workflow"
    /\ calls' = calls \o <<"setup_file_logging", "run_workflow">>
    /\ Exit(IF success THEN 0 ELSE 1)
    /\ UNCHANGED <<fs, dir, now, env, lastMut, ret, faultVars, procVars, args, workflow>>

-----------------------------------------------------------------------------
(* Actions: one call of OrchestratorAgent.execute_workflow, one action per  *)
(* step.  workflow.pc is the step about to run, workflow.started the steps   *)
(* begun so far in order, and the other fields are execute_workflow's local  *)
(* variables, reduced to what its conditions read: whether a result has      *)
(* "success": True, and whether a helper returned its {"error": ...}.        *)

StepOrder ==
    <<"resume_parsing", "job_analysis", "strategic_analysis",
      "style_selection", "email_generation", "result_saving", "final_summary">>

\* values of --style (three of its five choices) and the styles
\* _determine_optimal_email_style returns
EmailStyles == {"auto", "executive_formal", "startup_casual"}
OptimalStyles == {"startup_casual", "executive_formal", "leadership_focused"}

\* the keys of "workflow_steps" in the dictionary execute_workflow returns
\* at the end
WorkflowSteps ==
    {"resume_parsing", "job_analysis", "strategic_analysis",
     "email_generation", "final_summary"}

NoResult ==
    [success |-> None, error |-> FALSE, workflow_steps |-> {},
     email_style_used |-> None]

\* return {"error": f"... failed: ..."}: a dictionary without "success"
ErrorResult == [NoResult EXCEPT !.error = TRUE]

\* execute_workflow has not been called
NotRunning == [pc |-> "idle"]

\* execute_workflow's local variables on entry
Entered(email_style) ==
    [pc |-> "step1", email_style |-> email_style, started |-> <<>>,
     resume_result |-> None, job_result |-> None,
     strategic_analysis |-> None, optimal_style |-> None,
     email_result |-> None, saved |-> None, final_summary |-> None,
     result |-> NoResult]

WorkflowFrame ==
    UNCHANGED <<fs, dir, now, env, lastMut, ret, faultVars, procVars,
                args, pc, exitStatus, calls>>

\* a step begins: its "Step n: ..." line is logged and its helper called
Begin(w, step) == [w EXCEPT !.started = Append(w.started, step)]

\* the call: orchestrator.execute_workflow(resume_path,
\* job_description_path, email_style)
execute_workflow(email_style) ==
    /\ workflow.pc = "idle"
    /\ workflow' = Entered(email_style)
    /\ WorkflowFrame

\* mutant of _parse_resume: the workflow goes on when the parse failed
_parse_resume_not_gating(success) ==
    /\ workflow.pc = "step1"
    /\ workflow' = [Begin(workflow, "resume_parsing") EXCEPT
                       !.resume_result = IF success THEN "success" ELSE "failed",
                       !.pc = "step2"]
    /\ WorkflowFrame

\* Step 1: resume_result = self._parse_resume(resume_path);
\* "if not resume_result.get("success", False): return {"error": ...}"
_parse_resume(success) ==
    /\ workflow.pc = "step1"
    /\ workflow' = [Begin(workflow, "resume_parsing") EXCEPT
                       !.resume_result = IF success THEN "success" ELSE "failed",
                       !.pc = IF success THEN "step2" ELSE "returned",
                       !.result = IF success THEN NoResult ELSE ErrorResult]
    /\ WorkflowFrame

\* Step 2: job_result = self._analyze_job(job_description_path), with the
\* same test
_analyze_job(success) ==
    /\ workflow.pc = "step2"
    /\ workflow' = [Begin(workflow, "job_analysis") EXCEPT
                       !.job_result = IF success THEN "success" ELSE "failed",
                       !.pc = IF success THEN "step3" ELSE "returned",
                       !.result = IF success THEN NoResult ELSE ErrorResult]
    /\ WorkflowFrame

\* Step 3: _perform_strategic_analysis returns the analysis, or
\* {"error": str(e)} from its own "except Exception"; execute_workflow
\* does not test what it returns
_perform_strategic_analysis(ok) ==
    /\ workflow.pc = "step3"
    /\ workflow' = [Begin(workflow, "strategic_analysis") EXCEPT
                       !.strategic_analysis = IF ok THEN "ok" ELSE "error",
                       !.pc = "step4"]
    /\ WorkflowFrame

\* Step 4: _determine_optimal_email_style returns a style ("executive_formal"
\* from its "except Exception" too); 'if email_style == "auto":
\* email_style = optimal_style'
_determine_optimal_email_style(optimal_style) ==
    /\ workflow.pc = "step4"
    /\ workflow' = [Begin(workflow, "style_selection") EXCEPT
                       !.optimal_style = optimal_style,
                       !.email_style = IF workflow.email_style = "auto"
                                       THEN optimal_style
                                       ELSE workflow.email_style,
                       !.pc = "step5"]
    /\ WorkflowFrame

\* Step 5: email_result = self._generate_email(...), with the test of
\* "success"
_generate_email(success) ==
    /\ workflow.pc = "step5"
    /\ workflow' = [Begin(workflow, "email_generation") EXCEPT
                       !.email_result = IF success THEN "success" ELSE "failed",
                       !.pc = IF success THEN "step6" ELSE "returned",
                       !.result = IF success THEN NoResult ELSE ErrorResult]
    /\ WorkflowFrame

\* Step 6: _save_workflow_results returns nothing; when os.makedirs, open or
\* json.dump raises, its "except Exception" logs the error and the
\* workflow goes on
_save_workflow_results(saved) ==
    /\ workflow.pc = "step6"
    /\ workflow' = [Begin(workflow, "result_saving") EXCEPT
                       !.saved = IF saved THEN "saved" ELSE "failed",
                       !.pc = "step7"]
    /\ WorkflowFrame

\* Step 7: _generate_final_summary returns the summary, or {"error": str(e)};
\* then 'return {"success": True, "workflow_steps": {...},
\* "email_style_used": email_style, "message": ...}'
_generate_final_summary(ok) ==
    /\ workflow.pc = "step7"
    /\ workflow' = [Begin(workflow, "final_summary") EXCEPT
                       !.final_summary = IF ok THEN "ok" ELSE "error",
                       !.pc = "returned",
                       !.result = [NoResult EXCEPT
                                      !.success = "True",
                                      !.workflow_steps = WorkflowSteps,
                                      !.email_style_used = workflow.email_style]]
    /\ WorkflowFrame

-----------------------------------------------------------------------------
(* Specification *)

\* DocumentCache(): os.makedirs(cache_dir, exist_ok=True); the directory is
\* new and empty.  The user has two source files of different bytes, F2
\* written after F1; every other state of the source files is reached by
\* the environment's actions.
InitCache ==
    /\ fs = [p \in Paths |-> IF p = "F1" THEN SrcFile("a", 0) ELSE SrcFile("bb", MaxTime)]
    /\ dir = [n \in RecordNames |-> NoFile]
    /\ now = 0
    /\ env = 0
    /\ lastMut = NoMut
    /\ ret = NoRet
    /\ locked = {}
    /\ unlistable = FALSE
    /\ storing = NotStoring
    /\ clearing = NotClearing

\* the cache used as a library: main() is not run
Init ==
    /\ InitCache
    /\ args = NoArgs
    /\ pc = "not_started"
    /\ exitStatus = Running
    /\ calls = <<>>
    /\ workflow = NotRunning

Next ==
    \/ \E p \in Paths, t \in Texts : cache_resume(p, t)
    \/ \E p \in Paths, t \in Texts : cache_job_description(p, t)
    \/ \E p \in Paths : CallGetCachedResume(p)
    \/ \E p \in Paths : CallGetCachedJobDescription(p)
    \/ clear_cache
    \/ get_cache_info
    \/ \E p \in Paths, c \in Contents, m \in Times : WriteFile(p, c, m)
    \/ \E p \in Paths : RemoveFile(p)
    \/ \E n \in RecordNames, s \in Shapes : DamageRecord(n, s)

Spec == Init /\ [][Next]_vars

\* The cache with record files that cannot be deleted
NextFail ==
    \/ \E p \in Paths, t \in Texts : cache_resume(p, t)
    \/ \E p \in Paths, t \in Texts : cache_job_description(p, t)
    \/ \E p \in Paths : CallGetCachedResume(p)
    \/ \E p \in Paths : CallGetCachedJobDescription(p)
    \/ clear_cache
    \/ get_cache_info
    \/ \E n \in RecordNames : LockRecord(n)

SpecFail == Init /\ [][NextFail]_vars

\* One run of main() with any arguments: each flag given or not, -r and -j
\* given or not
ArgsSet ==
    [cache_info : BOOLEAN, clear_cache : BOOLEAN,
     resume : {None, "F1"}, job_description : {None, "F2"}]

InitCli ==
    /\ InitCache
    /\ args \in ArgsSet
    /\ pc = "start"
    /\ exitStatus = Running
    /\ calls = <<>>
    /\ workflow = NotRunning

\* main() runs while the source files may be removed and resumes may have
\* been cached by other runs
NextCli ==
    \/ \E loaded \in BOOLEAN : LoadEnvironment(loaded)
    \/ CacheInfoAction
    \/ ClearCacheAction
    \/ CacheDirectoryFailure
    \/ CheckArguments
    \/ ValidateInputFiles
    \/ \E created \in BOOLEAN : CreateOutputDirectory(created)
    \/ \E success \in BOOLEAN : RunWorkflow(success)
    \/ \E p \in Paths : RemoveFile(p)
    \/ \E p \in Paths, t \in Texts : cache_resume(p, t)
    \/ RevokeListing

SpecCli == InitCli /\ [][NextCli]_vars

\* One process runs clear_cache while others store, look up and list
NextClear ==
    \/ \E p \in Paths, t \in Texts : cache_resume(p, t)
    \/ \E p \in Paths, t \in Texts : cache_job_description(p, t)
    \/ \E p \in Paths : CallGetCachedResume(p)
    \/ \E p \in Paths : CallGetCachedJobDescription(p)
    \/ get_cache_info
    \/ ClearListdir
    \/ \E n \in RecordNames : ClearRemove(n)
    \/ ClearReturn

SpecClear == Init /\ [][NextClear]_vars

\* One process stores a resume (cache_job_description runs the same
\* statements on the job_description records) while others look up, list
\* and change the source files
NextWrite ==
    \/ \E p \in Paths, t \in Texts : StoreGetCacheFilePath("resume", p, t)
    \/ StoreGetTimestamp
    \/ StoreGetSize
    \/ SaveCacheOpen
    \/ \E written \in BOOLEAN : SaveCacheDump(written)
    \/ \E p \in Paths : CallGetCachedResume(p)
    \/ get_cache_info
    \/ \E p \in Paths, c \in Contents, m \in Times : WriteFile(p, c, m)
    \/ \E p \in Paths : RemoveFile(p)

SpecWrite == Init /\ [][NextWrite]_vars

\* One call of execute_workflow, every helper with each of its outcomes
NextWorkflow ==
    \/ \E email_style \in EmailStyles : execute_workflow(email_style)
    \/ \E success \in BOOLEAN : _parse_resume(success)
    \/ \E success \in BOOLEAN : _analyze_job(success)
    \/ \E ok \in BOOLEAN : _perform_strategic_analysis(ok)
    \/ \E optimal_style \in OptimalStyles : _determine_optimal_email_style(optimal_style)
    \/ \E success \in BOOLEAN : _generate_email(success)
    \/ \E saved \in BOOLEAN : _save_workflow_results(saved)
    \/ \E ok \in BOOLEAN : _generate_final_summary(ok)

SpecWorkflow == Init /\ [][NextWorkflow]_vars

-----------------------------------------------------------------------------
(* Properties *)

\* the record file lookup(kind, p) reads: the one named after the kind and
\* the hash of p's present bytes
RecordAt(kind, p) == dir[RecordName(kind, Md5(fs[p].content))]

\* the source file of the last store is as it was at that store
SameBytes(p) == fs[p].exists /\ fs[p].content = lastMut.content
OtherKind(kind) == IF kind = "resume" THEN "job" ELSE "resume"

\* C1 (write-then-read): when the last change of the cache directory is a
\* successful store(kind, F, text), F holds the bytes it held at the store and
\* its modification time is not later than at the store, lookup(kind, F)
\* returns (text, hit = true).
C1_WriteThenRead ==
    (/\ lastMut.op = "store"
     /\ SameBytes(lastMut.path)
     /\ fs[lastMut.path].mtime <= lastMut.mtime)
    => Lookup(lastMut.kind, lastMut.path) = Hit(lastMut.text)

\* C1 witness: a lookup of the stored file was made and hit with the stored
\* text, the file's modification time being the one of the store
C1_Witness ==
    /\ lastMut.op = "store"
    /\ ret.op = "lookup" /\ ret.kind = lastMut.kind /\ ret.path = lastMut.path
    /\ SameBytes(lastMut.path)
    /\ fs[lastMut.path].mtime = lastMut.mtime
    /\ ret.hit /\ ret.text = lastMut.text

\* C2 as stated (staleness): after store(kind, F, text), once F is modified
\* (content changed and/or mtime advanced), lookup(kind, F) is a miss whatever
\* else the cache holds.
C2_Original ==
    (/\ lastMut.op = "store"
     /\ fs[lastMut.path].exists
     /\ \/ fs[lastMut.path].content # lastMut.content
        \/ fs[lastMut.path].mtime > lastMut.mtime)
    => ~Lookup(lastMut.kind, lastMut.path).hit

\* C2 as amended: after store(kind, F, text), lookup(kind, F) is a miss when
\* F's mtime has advanced and its bytes are the same, and when F's bytes have
\* changed and the cache holds no record of that kind for the new bytes, or
\* one whose timestamp is below F's mtime; when it holds a record of that kind
\* for the new bytes with a timestamp not below F's mtime, the lookup hits
\* with that record's text.
C2_Staleness ==
    (lastMut.op = "store" /\ fs[lastMut.path].exists) =>
        LET F == lastMut.path
            r == Lookup(lastMut.kind, F)
            rec == RecordAt(lastMut.kind, F)
        IN  /\ (SameBytes(F) /\ fs[F].mtime > lastMut.mtime) => r = Miss
            /\ (~SameBytes(F) /\ (rec.shape = "absent" \/ rec.timestamp < fs[F].mtime))
                  => r = Miss
            /\ (~SameBytes(F) /\ rec.shape = "record" /\ rec.timestamp >= fs[F].mtime)
                  => r = Hit(rec.parsed_text)

\* C2 witness: the stored file was touched (same bytes, later mtime) and the
\* lookup made then missed
C2_Witness ==
    /\ lastMut.op = "store"
    /\ SameBytes(lastMut.path)
    /\ fs[lastMut.path].mtime > lastMut.mtime
    /\ ret.op = "lookup" /\ ret.kind = lastMut.kind /\ ret.path = lastMut.path
    /\ ~ret.hit /\ ret.text = None

\* C3 (lookup validity rule): for a readable F, lookup(kind, F) hits exactly
\* when the file named after (kind, hash of F's bytes) holds a well-formed
\* record and F's mtime is at most the record's timestamp; a hit returns the
\* record's text, a miss returns None.
C3_ValidityRule ==
    \A kind \in Kinds, p \in Paths :
        fs[p].exists =>
            LET r == Lookup(kind, p)
                rec == RecordAt(kind, p)
            IN  /\ r.hit <=> (rec.shape = "record" /\ fs[p].mtime <= rec.timestamp)
                /\ r.hit => r.text = rec.parsed_text
                /\ ~r.hit => r.text = None

\* C3 witness: a lookup hit although the file's mtime is strictly below the
\* record's timestamp
C3_Witness ==
    /\ ret.op = "lookup" /\ ret.hit
    /\ fs[ret.path].exists
    /\ fs[ret.path].mtime < RecordAt(ret.kind, ret.path).timestamp

\* C4 (content addressing): when the last change of the cache directory is
\* store(kind, F2, t2), every other file F1 with F2's bytes resolves to the
\* record written for F2 (sourcePath F2, text t2, F2's mtime), and
\* lookup(kind, F1) is decided by that record: a hit with t2 unless F1's
\* mtime is above F2's.
C4_ContentAddressing ==
    lastMut.op = "store" =>
        \A F1 \in Paths \ {lastMut.path} :
            SameBytes(F1) =>
                LET loaded == _load_cache(_get_cache_file_path(F1, lastMut.kind).value)
                IN  /\ loaded = Record(lastMut.path, lastMut.text, lastMut.mtime,
                                       lastMut.now, SrcSize(lastMut.content))
                    /\ Lookup(lastMut.kind, F1) =
                          IF fs[F1].mtime > lastMut.mtime THEN Miss
                          ELSE Hit(lastMut.text)

\* C4 witness: F2's store replaced the record that F1's store had written
\* with another text, and the lookup of F1 made then returned F2's text
C4_Witness ==
    /\ lastMut.op = "store"
    /\ lastMut.before.shape = "record"
    /\ lastMut.before.file_path # lastMut.path
    /\ lastMut.before.parsed_text # lastMut.text
    /\ ret.op = "lookup" /\ ret.kind = lastMut.kind
    /\ ret.path = lastMut.before.file_path
    /\ SameBytes(ret.path)
    /\ ret.hit /\ ret.text = lastMut.text

\* a step is a call of cache_resume or cache_job_description exactly when
\* the clock advances; ret' tells its kind, its path and whether it raised
StoreStep == now' # now

\* the file of the last store is unchanged, no record file of the other kind
\* exists for its bytes, and the lookup under the other kind is a miss
CrossKindMiss ==
    (/\ lastMut.op = "store"
     /\ fs[lastMut.path] = SrcFile(lastMut.content, lastMut.mtime)
     /\ dir[RecordName(OtherKind(lastMut.kind), Md5(lastMut.content))].shape = "absent")
    => Lookup(OtherKind(lastMut.kind), lastMut.path) = Miss

\* C5 (kind isolation): a store under one kind leaves every record file of
\* the other kind as it was, and when the last change of the cache directory
\* is store(kind, F, text), F is unchanged and no record file of the other
\* kind exists for F's bytes, lookup(other kind, F) is a miss.
C5_KindIsolation ==
    [][/\ StoreStep =>
            \A n \in RecordNames : n[1] # ret'.kind => dir'[n] = dir[n]
       /\ CrossKindMiss'
      ]_vars

\* C5 witness: a resume was stored, a record of the other kind exists for
\* other bytes only, and the lookup of the same unchanged file as a job
\* missed
C5_Witness ==
    /\ lastMut.op = "store" /\ lastMut.kind = "resume"
    /\ fs[lastMut.path] = SrcFile(lastMut.content, lastMut.mtime)
    /\ \E n \in RecordNames : n[1] = "job" /\ dir[n].shape = "record"
    /\ ret.op = "lookup" /\ ret.kind = "job" /\ ret.path = lastMut.path
    /\ ~ret.hit /\ ret.text = None
    /\ Lookup("resume", lastMut.path).hit

\* C6 (clear-all completeness): when the last change of the cache directory
\* is clear_cache, get_cache_info reports no entry and total size 0 and
\* every lookup misses.
C6_ClearAll ==
    lastMut.op = "clear" =>
        /\ CacheInfo.cached_files = {}
        /\ CacheInfo.total_size = 0
        /\ \A kind \in Kinds, p \in Paths : Lookup(kind, p) = Miss
        /\ ret.op = "info" => (ret.entries = {} /\ ret.total = 0)
        /\ ret.op = "lookup" => (~ret.hit /\ ret.text = None)

\* C6 witness: clear_cache removed records of both kinds, one of them a hit
\* for an existing file before, and get_cache_info was called after it
C6_Witness ==
    /\ lastMut.op = "clear"
    /\ \E n, m \in lastMut.cleared : n[1] = "resume" /\ m[1] = "job"
    /\ \E p \in Paths : fs[p].exists /\ RecordName("job", Md5(fs[p].content)) \in lastMut.cleared
    /\ ret.op = "info" /\ ret.entries = {} /\ ret.total = 0

\* the number of files of the cache directory named after (kind, hash)
FilesOfKey(kind, h) ==
    Cardinality({n \in ListDir : n[1] = kind /\ n[2] = h})

\* the step stores the (kind, F, text) of the last change of the cache
\* directory again, F being as it was
SameStoreAgain ==
    /\ StoreStep /\ ~ret'.raised
    /\ lastMut.op = "store"
    /\ ret'.kind = lastMut.kind /\ ret'.path = lastMut.path
    /\ lastMut'.text = lastMut.text
    /\ fs[lastMut.path] = SrcFile(lastMut.content, lastMut.mtime)

\* C7 (idempotent store, key uniqueness): every key names at most one file,
\* and storing the same (kind, F, text) twice leaves one record file for the
\* key, equal to the first but for cached_at, which is the time of the second
\* store; no other file changes and get_cache_info lists as many entries as
\* before.
C7_IdempotentStore ==
    [][/\ \A kind \in Kinds, h \in Hashes : FilesOfKey(kind, h)' <= 1
       /\ SameStoreAgain =>
            LET key == RecordName(lastMut.kind, Md5(lastMut.content))
            IN  /\ FilesOfKey(lastMut.kind, Md5(lastMut.content))' = 1
                /\ dir[key].shape = "record"
                /\ dir[key].cached_at = lastMut.now
                /\ dir'[key] = [dir[key] EXCEPT !.cached_at = now]
                /\ now > lastMut.now
                /\ \A n \in RecordNames \ {key} : dir'[n] = dir[n]
                /\ Cardinality(CacheInfo.cached_files)'
                      = Cardinality(CacheInfo.cached_files)
      ]_vars

\* C7 witness: the same (kind, F, text) was stored twice in a row, and
\* get_cache_info, called after the second store, listed one entry
C7_Witness ==
    /\ lastMut.op = "store"
    /\ lastMut.before = Record(lastMut.path, lastMut.text, lastMut.mtime,
                               lastMut.now - 1, SrcSize(lastMut.content))
    /\ ret.op = "info" /\ Cardinality(ret.entries) = 1

C9_CorruptedIsMiss ==
    /\ \A kind \in Kinds, p \in Paths :
          (fs[p].exists /\ RecordAt(kind, p).shape \in Shapes)
              => Lookup(kind, p) = Miss
    /\ (ret.op = "lookup" /\ fs[ret.path].exists
            /\ RecordAt(ret.kind, ret.path).shape \in Shapes)
          => (~ret.raised /\ ~ret.hit /\ ret.text = None)

\* C9 witness: a lookup read a record file whose timestamp is no number, of
\* a file whose mtime would have made the record a hit, and missed
C9_Witness ==
    /\ ret.op = "lookup" /\ fs[ret.path].exists
    /\ RecordAt(ret.kind, ret.path).shape = "bad_timestamp"
    /\ lastMut.op = "damage"
    /\ lastMut.before.timestamp >= fs[ret.path].mtime
    /\ ~ret.raised /\ ~ret.hit /\ ret.text = None

\* the sum of the sizes of the entries get_cache_info lists
RECURSIVE SumEntrySizes(_)
SumEntrySizes(E) ==
    IF E = {} THEN 0
    ELSE LET e == CHOOSE x \in E : TRUE
         IN  e.size + SumEntrySizes(E \ {e})

\* C10 (corrupted-record resilience of info): get_cache_info lists no file
\* that fails to load as a JSON object (not JSON, or a JSON value that is no
\* object), lists every well-formed record, counts in total_size the sizes
\* of exactly the listed entries, and does not raise.
C10_InfoSkipsCorrupted ==
    LET info == CacheInfo
        listed == {e.file : e \in info.cached_files}
    IN  /\ \A n \in RecordNames :
              /\ dir[n].shape \in {"unparseable", "null", "array"} => n \notin listed
              /\ dir[n].shape = "record" => n \in listed
              /\ n \in listed => dir[n].shape # "absent"
        /\ \A e \in info.cached_files :
              /\ e.size = RecordFileSize(dir[e.file])
              /\ e.original_file = dir[e.file].file_path
              /\ e.cached_at = dir[e.file].cached_at
        /\ info.total_size = SumEntrySizes(info.cached_files)
        /\ ret.op = "info" =>
              /\ ~ret.raised
              /\ ret.entries = info.cached_files
              /\ ret.total = info.total_size

\* C10 witness: get_cache_info was called on a directory holding a
\* well-formed record and a file that is not JSON; it listed the one and
\* counted its size alone
C10_Witness ==
    /\ ret.op = "info"
    /\ \E n, m \in RecordNames :
          /\ dir[n].shape = "record" /\ dir[m].shape = "unparseable"
          /\ {e.file : e \in ret.entries} = {n}
          /\ ret.total = RecordFileSize(dir[n])
          /\ ret.total > 0

\* C12 (store on an unreadable source): a call of cache_resume or
\* cache_job_description for a file that cannot be read raises to the
\* caller after the one attempt, and leaves every file of the cache directory
\* as it was.
C12_StoreUnreadable ==
    [][(StoreStep /\ ~fs[ret'.path].exists) =>
            /\ ret'.op = "store" /\ ret'.raised
            /\ now' = now + 1
            /\ dir' = dir
            /\ lastMut' = lastMut
      ]_vars

\* C12 witness: a store of a removed file raised while the cache held the
\* record stored for that file before
C12_Witness ==
    /\ ret.op = "store" /\ ret.raised
    /\ ~fs[ret.path].exists
    /\ lastMut.op = "store" /\ lastMut.path = ret.path
    /\ dir[RecordName(lastMut.kind, Md5(lastMut.content))]
          = Record(lastMut.path, lastMut.text, lastMut.mtime, lastMut.now,
                   SrcSize(lastMut.content))

\* the step is a call of get_cached_resume or get_cached_job_description
LookupStep == ret'.op = "lookup"

\* C13 (lookup is read-only): a lookup, whether it hits, misses or finds a
\* stale record, leaves every file of the cache directory as it was; a
\* record file changes only by a store to its own key or by clear_cache
\* (or by damage from outside the cache).
C13_LookupReadOnly ==
    [][/\ LookupStep => (dir' = dir /\ lastMut' = lastMut /\ fs' = fs)
       /\ \A n \in RecordNames :
            dir'[n] # dir[n] =>
                \/ /\ StoreStep /\ ~ret'.raised
                   /\ n = RecordName(ret'.kind, Md5(fs[ret'.path].content))
                \/ ret'.op = "clear"
                \/ lastMut'.op = "damage"
      ]_vars

\* C13 witness: a lookup found the record of the file's bytes stale and
\* missed; the record is in place as the store wrote it
C13_Witness ==
    /\ ret.op = "lookup" /\ ~ret.hit
    /\ fs[ret.path].exists
    /\ lastMut.op = "store" /\ lastMut.kind = ret.kind
    /\ RecordAt(ret.kind, ret.path)
          = Record(lastMut.path, lastMut.text, lastMut.mtime, lastMut.now,
                   SrcSize(lastMut.content))
    /\ fs[ret.path].mtime > RecordAt(ret.kind, ret.path).timestamp

\* the step is a call of clear_cache
ClearStep == ret'.op = "clear"

\* C14 (entries never expire): a file of the cache directory stays in the
\* directory through every step that is not a call of clear_cache (lookup,
\* store to any key, get_cache_info, a change of a source file), and a
\* well-formed record stays well-formed unless damaged from outside; no
\* call removes one record alone.
C14_NeverExpire ==
    [][~ClearStep =>
            \A n \in RecordNames :
                /\ dir[n].shape # "absent" => dir'[n].shape # "absent"
                /\ (dir[n].shape = "record" /\ lastMut'.op # "damage")
                      => dir'[n].shape = "record"
      ]_vars

\* C14 witness: a record stored before the last store is in place after a
\* store to another key, a change of its source file and a call of
\* get_cache_info
C14_Witness ==
    /\ lastMut.op = "store"
    /\ ret.op = "info"
    /\ \E n \in RecordNames :
          /\ dir[n].shape = "record"
          /\ dir[n].cached_at < lastMut.now
          /\ n # RecordName(lastMut.kind, Md5(lastMut.content))
          /\ fs[dir[n].file_path] # SrcFile(CHOOSE c \in Contents : Md5(c) = n[2],
                                            dir[n].timestamp)

\* C15 (key derivation): the record file lookup and store use for (kind, F)
\* is the one named after the kind and the MD5 of F's bytes, whatever F's
\* path, modification time and size: two readable files map to the same
\* record file exactly when their bytes are equal, and the record of the
\* last store lies at the name made of its kind and the hash of the bytes
\* stored.
C15_KeyDerivation ==
    /\ \A kind \in Kinds, p \in Paths :
          fs[p].exists =>
              LET cache_file_path == _get_cache_file_path(p, kind)
              IN  /\ cache_file_path = Value(RecordName(kind, Md5(fs[p].content)))
                  /\ \A q \in Paths :
                        fs[q].exists =>
                            (cache_file_path = _get_cache_file_path(q, kind)
                                <=> fs[p].content = fs[q].content)
    /\ \A c, d \in Contents : c # d => Md5(c) # Md5(d)
    /\ lastMut.op = "store" =>
          LET key == RecordName(lastMut.kind, Md5(lastMut.content))
          IN  /\ dir[key].file_path = lastMut.path
              /\ SameBytes(lastMut.path) =>
                    _get_cache_file_path(lastMut.path, lastMut.kind).value = key
              /\ (fs[lastMut.path].exists /\ ~SameBytes(lastMut.path)) =>
                    _get_cache_file_path(lastMut.path, lastMut.kind).value # key

\* C15 witness: two files of equal bytes and different modification times,
\* the record stored for the one, and a lookup of the other that hit it
C15_Witness ==
    /\ lastMut.op = "store"
    /\ ret.op = "lookup" /\ ret.hit /\ ret.kind = lastMut.kind
    /\ ret.path # lastMut.path
    /\ fs[ret.path].exists /\ fs[lastMut.path].exists
    /\ fs[ret.path].content = fs[lastMut.path].content
    /\ fs[ret.path].mtime # fs[lastMut.path].mtime
    /\ RecordAt(ret.kind, ret.path).file_path = lastMut.path

\* C16 (store record contents): a store that does not raise leaves, at the
\* file named after the kind and the hash of the file's bytes, the record
\* (file_path, parsed_text, the file's mtime at the store, the time of the
\* store, the file's size at the store) in place of what was there, and every
\* other file of the cache directory as it was.
C16_StoreRecord ==
    [][(StoreStep /\ ~ret'.raised) =>
            LET F == ret'.path
                key == RecordName(ret'.kind, Md5(fs[F].content))
            IN  /\ fs[F].exists
                /\ dir'[key] = Record(F, lastMut'.text, fs[F].mtime, now,
                                      SrcSize(fs[F].content))
                /\ dir'[key].file_size = Len(fs[F].content)
                /\ lastMut'.before = dir[key]
                /\ \A n \in RecordNames \ {key} : dir'[n] = dir[n]
      ]_vars

\* C16 witness: a store replaced the record another file of the same bytes
\* had left, which differed in path, text and timestamp, and the record in
\* place is the one of the store
C16_Witness ==
    /\ lastMut.op = "store"
    /\ ret.op = "store" /\ ~ret.raised
    /\ lastMut.before.shape = "record"
    /\ lastMut.before.file_path # lastMut.path
    /\ lastMut.before.parsed_text # lastMut.text
    /\ lastMut.before.timestamp # lastMut.mtime
    /\ lastMut.mtime > 0
    /\ dir[RecordName(lastMut.kind, Md5(lastMut.content))]
          = Record(lastMut.path, lastMut.text, lastMut.mtime, lastMut.now,
                   SrcSize(lastMut.content))

\* F, the file of the last store, holds other bytes than at the store and
\* its modification time has not advanced
EditedInPlace ==
    /\ lastMut.op = "store"
    /\ fs[lastMut.path].exists
    /\ fs[lastMut.path].content # lastMut.content
    /\ fs[lastMut.path].mtime <= lastMut.mtime

\* C17 as stated (unsafe approximation): after store(kind, F, text), F
\* edited to other bytes without its mtime advancing is a hit on
\* lookup(kind, F), returning the text cached for the old bytes.
C17_Original ==
    EditedInPlace => Lookup(lastMut.kind, lastMut.path) = Hit(lastMut.text)

\* C17 as amended: after store(kind, F, text), F edited to other bytes
\* without its mtime advancing maps to another record file than the one the
\* store wrote; lookup(kind, F) reads that file alone and is a miss unless it
\* holds a well-formed record whose timestamp is not below F's mtime, and
\* then a hit with that record's text.
C17_EditedIsOtherKey ==
    EditedInPlace =>
        LET F == lastMut.path
            rec == RecordAt(lastMut.kind, F)
        IN  /\ RecordName(lastMut.kind, Md5(fs[F].content))
                  # RecordName(lastMut.kind, Md5(lastMut.content))
            /\ Lookup(lastMut.kind, F) =
                  IF rec.shape = "record" /\ rec.timestamp >= fs[F].mtime
                  THEN Hit(rec.parsed_text)
                  ELSE Miss

\* C17 witness: the file of the last store was edited to other bytes with
\* the same mtime, and the lookup made then missed with the old record in
\* place
C17_Witness ==
    /\ EditedInPlace
    /\ fs[lastMut.path].mtime = lastMut.mtime
    /\ dir[RecordName(lastMut.kind, Md5(lastMut.content))].parsed_text = lastMut.text
    /\ lastMut.text # ""
    /\ ret.op = "lookup" /\ ret.kind = lastMut.kind /\ ret.path = lastMut.path
    /\ ~ret.hit /\ ret.text = None

\* C18 (wasteful approximation): a readable file whose bytes have a
\* well-formed record of the kind and whose mtime is above the record's
\* timestamp is a miss on lookup; so is, after store(kind, F, text), F with
\* the bytes of the store and a later mtime, the record of the store being
\* in place.
C18_TouchedIsMiss ==
    /\ \A kind \in Kinds, p \in Paths :
          (/\ fs[p].exists
           /\ RecordAt(kind, p).shape = "record"
           /\ fs[p].mtime > RecordAt(kind, p).timestamp)
          => Lookup(kind, p) = Miss
    /\ (/\ lastMut.op = "store"
        /\ SameBytes(lastMut.path)
        /\ fs[lastMut.path].mtime > lastMut.mtime)
       => /\ RecordAt(lastMut.kind, lastMut.path)
                = Record(lastMut.path, lastMut.text, lastMut.mtime, lastMut.now,
                         SrcSize(lastMut.content))
          /\ Lookup(lastMut.kind, lastMut.path) = Miss

\* C18 witness: the file of the last store has the bytes of the store and a
\* later mtime, the record of the store is in place with those bytes' hash
\* in its name, and the lookup made then missed
C18_Witness ==
    /\ lastMut.op = "store"
    /\ SameBytes(lastMut.path)
    /\ fs[lastMut.path].mtime > lastMut.mtime
    /\ RecordAt(lastMut.kind, lastMut.path).parsed_text = lastMut.text
    /\ RecordAt(lastMut.kind, lastMut.path).shape = "record"
    /\ ret.op = "lookup" /\ ret.kind = lastMut.kind /\ ret.path = lastMut.path
    /\ ret = LookupRet(lastMut.kind, lastMut.path, Miss)

\* the step is a call of get_cache_info
InfoStep == ret'.op = "info"

\* C19 (info is read-only): get_cache_info leaves every file of the cache
\* directory as it was; the files it skips are in the directory after it.
C19_InfoReadOnly ==
    [][InfoStep =>
            /\ dir' = dir /\ lastMut' = lastMut /\ fs' = fs
            /\ \A n \in RecordNames :
                  (dir[n].shape # "absent" /\ n \notin {e.file : e \in ret'.entries})
                      => dir'[n].shape = dir[n].shape
      ]_vars

\* C19 witness: get_cache_info was called on a directory holding a damaged
\* file, did not list it, and the file is there
C19_Witness ==
    /\ ret.op = "info"
    /\ lastMut.op = "damage"
    /\ \E n \in RecordNames :
          /\ dir[n].shape \in {"unparseable", "null", "array"}
          /\ n \notin {e.file : e \in ret.entries}

\* C11 (clear-all is best-effort): when clear_cache has ended, every record
\* file whose deletion can succeed is gone, whether or not the deletion of
\* another failed, and the call reports the record files it could not
\* delete.
C11_BestEffortClear ==
    ret.op = "clear" =>
        /\ \A n \in RecordNames : dir[n].shape # "absent" => n \in locked
        /\ ret.failed = {n \in RecordNames : dir[n].shape # "absent"}

\* a cache action of main() was entered: DocumentCache() was constructed
\* for get_cache_info or clear_cache
CacheActionEntered == Called("DocumentCache")

\* C20 (CLI exclusivity): a run of main() given --cache-info or
\* --clear-cache never validates the input files nor runs the workflow,
\* with or without -r and -j, and has entered its cache action when it has
\* exited; the workflow runs only when neither flag is given.
C20_CliExclusivity ==
    /\ (args.cache_info \/ args.clear_cache) =>
          /\ ~Called("validate_input_files")
          /\ ~Called("run_workflow")
          /\ pc = "exited" => CacheActionEntered
    /\ Called("run_workflow") => (~args.cache_info /\ ~args.clear_cache)

\* C23 (hit integrity): whenever a call of lookup(kind, F) hits, the text it
\* returns is the text argument of the most recent store to the record file
\* named after kind and the hash of F's bytes (lastMut.stored, which forgets
\* a file that was removed or damaged); it is never None.
C23_HitIntegrity ==
    [][(LookupStep /\ ret'.hit) =>
          /\ fs[ret'.path].exists
          /\ ret'.text
                = lastMut.stored[RecordName(ret'.kind, Md5(fs[ret'.path].content))]
          /\ ret'.text # None
          /\ ret'.text \in Texts
          /\ ret'.text = Lookup(ret'.kind, ret'.path).text
      ]_vars

\* C23 witness: a key was stored twice by the same file with different
\* texts, and the lookup made then hit with the text of the second store
C23_Witness ==
    /\ lastMut.op = "store"
    /\ lastMut.before.shape = "record"
    /\ lastMut.before.file_path = lastMut.path
    /\ lastMut.before.parsed_text # lastMut.text
    /\ ret.op = "lookup" /\ ret.kind = lastMut.kind /\ ret.path = lastMut.path
    /\ ret.hit /\ ret.text = lastMut.text /\ ret.text # ""

\* C26 (error outcome of info): get_cache_info never raises; when the cache
\* directory cannot be listed the dictionary it returns has the key "error"
\* alone, and the run of main() given --cache-info has then exited with
\* status 1; when the directory can be listed the dictionary has the keys
\* cache_directory, cached_files and total_size and the status is 0.
C26_InfoErrorOutcome ==
    /\ ~GetCacheInfoRet.raised
    /\ unlistable => GetCacheInfoRet.keys = {"error"}
    /\ ret.op = "info" =>
          /\ ~ret.raised
          /\ Called("get_cache_info") /\ pc = "exited"
          /\ unlistable =>
                /\ ret.keys = {"error"} /\ ret.entries = {} /\ ret.total = 0
                /\ exitStatus = 1
          /\ ~unlistable =>
                /\ ret.keys = {"cache_directory", "cached_files", "total_size"}
                /\ exitStatus = 0

\* C26 witness: --cache-info was run on a cache directory that holds a
\* record and cannot be listed; get_cache_info returned the "error"
\* dictionary and the process exited with status 1
C26_Witness ==
    /\ ret.op = "info" /\ unlistable
    /\ ret.keys = {"error"}
    /\ \E n \in RecordNames : dir[n].shape = "record"
    /\ pc = "exited" /\ exitStatus = 1
    /\ calls = <<"load_environment", "DocumentCache", "get_cache_info">>

\* C27 (flag precedence): a run of main() given both --cache-info and
\* --clear-cache has, when it has exited, run get_cache_info, not called
\* clear_cache, exited with status 0 and removed no record.
C27_FlagPrecedence ==
    (args.cache_info /\ args.clear_cache /\ pc = "exited") =>
        /\ Called("get_cache_info")
        /\ ~Called("clear_cache")
        /\ exitStatus = 0
        /\ lastMut.op # "clear"

\* C28 (cache actions are gated on the environment): load_environment is
\* the first call of main(); when it returns False the process exits with
\* status 1 there, when it returns True main goes on to the cache branches;
\* a process that has exited calls nothing more, and DocumentCache,
\* get_cache_info and clear_cache are called only after load_environment
\* returned True.
C28_EnvironmentGate ==
    [][/\ (pc = "start" /\ pc' # "start") =>
            /\ calls' = <<"load_environment">>
            /\ ret'.op = "load_environment"
            /\ ret'.error => (pc' = "exited" /\ exitStatus' = 1)
            /\ ~ret'.error => (pc' = "cache_ops" /\ exitStatus' = Running)
       /\ pc = "exited" => UNCHANGED cliVars
       /\ pc = "start" =>
            /\ ~Called("DocumentCache")'
            /\ ~Called("get_cache_info")' /\ ~Called("clear_cache")'
            /\ lastMut'.op # "clear"
      ]_vars

\* C28 witness: --clear-cache was given, the cache held a record,
\* load_environment returned False and the process exited with status 1
\* with the record in place
C28_Witness ==
    /\ args.clear_cache /\ ~args.cache_info
    /\ ret.op = "load_environment" /\ ret.error
    /\ pc = "exited" /\ exitStatus = 1
    /\ calls = <<"load_environment">>
    /\ \E n \in RecordNames : dir[n].shape = "record"

\* every lookup is decided by the files the cache directory holds now
LookupsSeeDirectory ==
    \A kind \in Kinds, p \in Paths :
        fs[p].exists =>
            (Lookup(kind, p).hit <=>
                (RecordAt(kind, p).shape = "record"
                    /\ fs[p].mtime <= RecordAt(kind, p).timestamp))

\* C21 (a partially cleared cache is observable): a running clear_cache
\* removes the listed files one per step, every other file staying as it
\* is, and between its steps a lookup by another process is decided by the
\* files left: a hit for a record not yet removed, a miss for one removed.
C21_ClearOneAtATime ==
    [][/\ (clearing.pc = "removing" /\ clearing'.pc = "removing"
                /\ clearing'.todo # clearing.todo) =>
            \E n \in clearing.todo :
                /\ clearing'.todo = clearing.todo \ {n}
                /\ dir[n].shape # "absent" /\ dir'[n].shape = "absent"
                /\ \A m \in RecordNames \ {n} : dir'[m] = dir[m]
       /\ clearing'.pc = "removing" => LookupsSeeDirectory'
      ]_vars

\* C21 witness: while clear_cache is running, the lookup of a file whose
\* record it has removed missed, and the lookup of another file, whose
\* record is still to be removed, hits
C21_Witness ==
    /\ clearing.pc = "removing"
    /\ lastMut.op = "remove"
    /\ ret.op = "lookup" /\ ~ret.hit
    /\ fs[ret.path].exists
    /\ lastMut.cleared = {RecordName(ret.kind, Md5(fs[ret.path].content))}
    /\ lastMut.before.shape = "record"
    /\ lastMut.before.timestamp >= fs[ret.path].mtime
    /\ \E kind \in Kinds, p \in Paths :
          /\ fs[p].exists /\ Lookup(kind, p).hit
          /\ RecordName(kind, Md5(fs[p].content)) \in clearing.todo

\* the record file the store in progress, or the last one, writes
StoringKey == RecordName(lastMut.kind, Md5(lastMut.content))

\* C22 (a partially written record is observable): between the open of the
\* record file and the end of json.dump the file is there and is not JSON,
\* whatever record it held before; a lookup by another process of a file
\* with the bytes of that key finds it unparseable and misses, and
\* get_cache_info skips it.
C22_PartialRecordVisible ==
    storing.pc = "opened" =>
        /\ storing.key = StoringKey
        /\ dir[storing.key].shape = "unparseable"
        /\ _load_cache(storing.key) = NoFile
        /\ \A p \in Paths :
              (fs[p].exists /\ Md5(fs[p].content) = storing.key[2])
                  => Lookup(storing.kind, p) = Miss
        /\ storing.key \notin {e.file : e \in CacheInfo.cached_files}
        /\ (ret.op = "lookup" /\ fs[ret.path].exists
                /\ RecordName(ret.kind, Md5(fs[ret.path].content)) = storing.key)
              => (~ret.hit /\ ~ret.raised)

\* C22 witness: a store has opened the record file of a key that held a
\* record, and the lookup another process made then, which that record
\* would have answered with a hit, missed
C22_Witness ==
    /\ storing.pc = "opened"
    /\ lastMut.op = "truncate"
    /\ lastMut.before.shape = "record"
    /\ ret.op = "lookup" /\ ~ret.hit
    /\ fs[ret.path].exists
    /\ RecordName(ret.kind, Md5(fs[ret.path].content)) = storing.key
    /\ fs[ret.path].mtime <= lastMut.before.timestamp

\* C24 (a failed overwrite preserves the old record): when a store has
\* failed while writing the record file of a key that held a record, that
\* record is in place, and the lookup of the file, unchanged since, hits
\* with the old text.
C24_FailedOverwriteKeepsRecord ==
    (/\ storing.pc = "idle"
     /\ ret.op = "store" /\ ret.raised
     /\ lastMut.op = "truncate"
     /\ lastMut.before.shape = "record")
    => /\ dir[StoringKey] = lastMut.before
       /\ (/\ fs[lastMut.path] = SrcFile(lastMut.content, lastMut.mtime)
           /\ lastMut.mtime <= lastMut.before.timestamp)
          => Lookup(lastMut.kind, lastMut.path) = Hit(lastMut.before.parsed_text)

\* C25 (key and timestamp of a store agree): the record a store has written
\* carries the mtime and the size of the version of the file whose bytes
\* were hashed for its name.
C25_KeyTimestampConsistent ==
    lastMut.op = "store" =>
        /\ dir[StoringKey].shape = "record"
        /\ dir[StoringKey].timestamp = lastMut.mtime
        /\ dir[StoringKey].file_size = SrcSize(lastMut.content)

IsPrefix(q, r) == Len(q) <= Len(r) /\ \A i \in 1..Len(q) : q[i] = r[i]

Started(step) == \E i \in 1..Len(workflow.started) : workflow.started[i] = step

\* no step was begun after step, and the call has not returned a
\* dictionary with "success": True
StoppedAt(step) ==
    /\ workflow.result.success # "True"
    /\ workflow.started # <<>>
    /\ workflow.started[Len(workflow.started)] = step

\* the order and the gates of the steps, and the result of a call that
\* succeeds
WorkflowGates ==
    /\ IsPrefix(workflow.started, StepOrder)
    /\ Started("job_analysis") => workflow.resume_result = "success"
    /\ Started("email_generation") =>
          (workflow.resume_result = "success" /\ workflow.job_result = "success")
    /\ Started("result_saving") => workflow.email_result = "success"
    /\ workflow.result.success = "True" =>
          /\ workflow.result.workflow_steps = WorkflowSteps
          /\ workflow.started = StepOrder
          /\ workflow.pc = "returned"

\* C29 as stated (workflow step ordering): the steps run in the order of
\* StepOrder behind their gates, a result with success=True has the five
\* workflow_steps entries, and after a failure of any of the steps the
\* call returns a result without success=True and runs no later step.
C29_Original ==
    workflow.pc # "idle" =>
        /\ WorkflowGates
        /\ workflow.resume_result = "failed" => StoppedAt("resume_parsing")
        /\ workflow.job_result = "failed" => StoppedAt("job_analysis")
        /\ workflow.strategic_analysis = "error" => StoppedAt("strategic_analysis")
        /\ workflow.email_result = "failed" => StoppedAt("email_generation")
        /\ workflow.saved = "failed" => StoppedAt("result_saving")
        /\ workflow.final_summary = "error" => StoppedAt("final_summary")

\* C29 (workflow step ordering), amended: the steps run in the order of
\* StepOrder behind their gates, a result with success=True has the five
\* workflow_steps entries, and after a failure of resume parsing, job
\* analysis or email generation the call returns a result without
\* success=True and runs no later step.
C29_WorkflowOrder ==
    workflow.pc # "idle" =>
        /\ WorkflowGates
        /\ workflow.resume_result = "failed" => StoppedAt("resume_parsing")
        /\ workflow.job_result = "failed" => StoppedAt("job_analysis")
        /\ workflow.email_result = "failed" => StoppedAt("email_generation")
        /\ "failed" \in {workflow.resume_result, workflow.job_result,
                         workflow.email_result}
              => (workflow.pc = "returned" /\ workflow.result = ErrorResult)

\* C29 witness: resume parsing and job analysis succeeded, email generation
\* was begun fifth and failed, and the call returned its error
C29_Witness ==
    /\ workflow.pc = "returned"
    /\ workflow.resume_result = "success"
    /\ workflow.job_result = "success"
    /\ workflow.email_result = "failed"
    /\ Len(workflow.started) = 5
    /\ workflow.result.error

====
